---- MODULE Spec2Model ----
(***************************************************************************)
(* Model of the HyperMapper C++ evaluation client                          *)
(* (example_scenarios/clients/cpp_client/cpp_client.cpp).                  *)
(*                                                                         *)
(* A std::string is a sequence of one-character strings; positions are     *)
(* 0-based as in C++.  The optimizer child is the environment: at every    *)
(* fgets it delivers one line of ChildLines, a last line without newline   *)
(* followed by end of stream, or end of stream.                            *)
(***************************************************************************)
EXTENDS Integers, Sequences, FiniteSets, TLC

\* ------------------------------------------------------------------ bounds
\* the child closes its output after at most MaxReads delivered lines
MaxReads == 6

\* ------------------------------------------------------- program constants
numParams == 2
SizeTBits == 16
\* const int max_buffer = 1000
max_buffer == 1000
\* vector<int> Range = {-20, 20}
RangeLo == 0 - 20
RangeHi == 20

\* size_t arithmetic is modular; the width is scaled down from 64 bits, far
\* above max_buffer, so that npos + 1 and npos - pos wrap as in the program
SizeTMod == 2 ^ SizeTBits
npos == SizeTMod - 1

SizeAdd(a, b) == (a + b) % SizeTMod
SizeSub(a, b) == ((a - b) + SizeTMod) % SizeTMod
Min(a, b) == IF a <= b THEN a ELSE b

\* ------------------------------------------------------------ std::string
DigitChars == {"0", "1", "2", "3", "4", "5", "6", "7", "8", "9"}
DigitVal == ("0" :> 0) @@ ("1" :> 1) @@ ("2" :> 2) @@ ("3" :> 3) @@ ("4" :> 4)
            @@ ("5" :> 5) @@ ("6" :> 6) @@ ("7" :> 7) @@ ("8" :> 8) @@ ("9" :> 9)
DigitChar == <<"0", "1", "2", "3", "4", "5", "6", "7", "8", "9">>

\* string::find / string::find_first_of: first position >= pos holding one
\* of chars, npos when there is none
find_first_of(s, chars, pos) ==
  IF \E p \in pos..(Len(s) - 1) : s[p + 1] \in chars
  THEN CHOOSE p \in pos..(Len(s) - 1) :
         /\ s[p + 1] \in chars
         /\ \A q \in pos..(p - 1) : s[q + 1] \notin chars
  ELSE npos

\* string::substr(pos, len): at most len characters from pos (pos <= size)
substr(s, pos, len) == SubSeq(s, pos + 1, Min(pos + len, Len(s)))

\* isspace of the C locale
IsSpace(c) == c \in {" ", "\n", "\t"}

RECURSIVE SkipSpace(_, _)
SkipSpace(s, k) ==
  IF k <= Len(s) /\ IsSpace(s[k]) THEN SkipSpace(s, k + 1) ELSE k

RECURSIVE DigitRun(_, _)
\* number of consecutive digits of s starting at index k
DigitRun(s, k) ==
  IF k <= Len(s) /\ s[k] \in DigitChars THEN 1 + DigitRun(s, k + 1) ELSE 0

RECURSIVE DigitsValue(_, _, _, _)
DigitsValue(s, k, n, acc) ==
  IF n = 0 THEN acc
  ELSE DigitsValue(s, k + 1, n - 1, 10 * acc + DigitVal[s[k]])

\* std::stoi: skips white space, takes an optional sign and the longest run
\* of digits, ignores what follows; throws std::invalid_argument when
\* there is no digit
StoiSignAt(s) == SkipSpace(s, 1)
StoiHasSign(s) == StoiSignAt(s) <= Len(s) /\ s[StoiSignAt(s)] \in {"+", "-"}
StoiDigitsAt(s) == IF StoiHasSign(s) THEN StoiSignAt(s) + 1 ELSE StoiSignAt(s)
StoiThrows(s) == DigitRun(s, StoiDigitsAt(s)) = 0
stoi(s) ==
  LET v == DigitsValue(s, StoiDigitsAt(s), DigitRun(s, StoiDigitsAt(s)), 0)
  IN  IF StoiHasSign(s) /\ s[StoiSignAt(s)] = "-" THEN 0 - v ELSE v

RECURSIVE to_string(_)
\* std::to_string(int)
to_string(n) ==
  IF n < 0 THEN <<"-">> \o to_string(0 - n)
  ELSE IF n < 10 THEN <<DigitChar[n + 1]>>
  ELSE to_string(n \div 10) \o <<DigitChar[(n % 10) + 1]>>

\* std::to_string(bool) goes through int
BoolToString(b) == to_string(IF b THEN 1 ELSE 0)


\* ------------------------------------------------------ the parameter model
\* collectInputParams: two Integer parameters; HMInputParam derives the keys
\* x0, x1 from its instance counter
InParams == <<<<"x", "0">>, <<"x", "1">>>>
InParamsEnd == 0
Objectives == <<<<"f", "1", "_", "v", "a", "l", "u", "e">>, <<"f", "2", "_", "v", "a", "l", "u", "e">>>>

\* HMInputParam::setVal stores the value; nothing checks it against the range
setVal(vals, p, x) == [vals EXCEPT ![p] = x]

\* findHMParamByKey: linear scan, the first parameter whose key equals Key,
\* InParams.end() when there is none
findHMParamByKey(Key) ==
  IF \E p \in 1..Len(InParams) : InParams[p] = Key
  THEN CHOOSE p \in 1..Len(InParams) :
         /\ InParams[p] = Key
         /\ \A q \in 1..(p - 1) : InParams[q] # Key
  ELSE InParamsEnd

\* calculateObjective with the second constraint left out of valid
calculateObjectiveFirstConstraintOnly(vals) ==
  LET x1 == vals[1]
      x2 == vals[2]
      c1 == (x1 * x1 + x2 * x2) <= 255
  IN  [f1_value |-> 2 + (x1 - 2) * (x1 - 2) + (x2 - 1) * (x2 - 1),
       f2_value |-> 9 * x1 - (x2 - 1) * (x2 - 1),
       valid    |-> c1]

\* calculateObjective: reads InputParams[0] and InputParams[1]
calculateObjective(vals) ==
  LET x1 == vals[1]
      x2 == vals[2]
      c1 == (x1 * x1 + x2 * x2) <= 255
      c2 == (x1 - 3 * x2 + 10) <= 0
  IN  [f1_value |-> 2 + (x1 - 2) * (x1 - 2) + (x2 - 1) * (x2 - 1),
       f2_value |-> 9 * x1 - (x2 - 1) * (x2 - 1),
       valid    |-> c1 /\ c2]

\* --------------------------------------------------- what the child sends
SentinelLine == <<"E", "n", "d", " ", "o", "f", " ", "H", "y", "p", "e", "r", "M", "a", "p", "p", "e", "r", "\n">>
Request1 == <<"R", "e", "q", "u", "e", "s", "t", " ", "1", "\n">>
Request2 == <<"R", "e", "q", "u", "e", "s", "t", " ", "2", "\n">>
RequestNoSpace == <<"5", "\n">>
RequestNotInt == <<"R", "e", "q", "u", "e", "s", "t", " ", "x", "\n">>
HeaderX0X1 == <<"x", "0", ",", "x", "1", "\n">>
HeaderX1X0 == <<"x", "1", ",", "x", "0", "\n">>
HeaderRepeat == <<"x", "0", ",", "x", "0", "\n">>
HeaderUnknown == <<"x", "0", ",", "z", "z", "\n">>
HeaderShort == <<"x", "0", "\n">>
HeaderLong == <<"x", "0", ",", "x", "1", ",", "z", "z", "\n">>
Row12 == <<"1", ",", "2", "\n">>
RowM34 == <<"-", "3", ",", "4", "\n">>
RowShort == <<"1", "\n">>
RowLong == <<"1", ",", "2", ",", "3", "\n">>
RowDecimal == <<"1", ".", "5", ",", "2", "\n">>
RowPartial == <<"-", "3", ",", "4">>

\* a request header "<token> 1" of max_buffer characters, newline included
LongRequest == [k \in 1..(max_buffer - 3) |-> "R"] \o <<" ", "1", "\n">>

ChildLines ==
  {SentinelLine, Request1, Request2, RequestNoSpace, RequestNotInt,
   HeaderX0X1, HeaderX1X0, HeaderRepeat, HeaderUnknown, HeaderShort,
   HeaderLong, Row12, RowM34, RowShort, RowLong, RowDecimal, LongRequest}

\* a last line the child wrote without newline before closing its output
PartialLines == {RowPartial}

\* marks, in the record of delivered lines, a read that met end of stream
EndOfStream == <<"<eof>">>

\* char buffer[max_buffer] is not initialised: before the first successful
\* fgets its content is whatever the stack holds
UninitBuffer == <<"<uninit>">>
GarbageBuffers == {<< >>, Row12}

\* HMInputParam::Value has no initialiser
UninitVals == {0, 7}


\* ---------------------------------------------------------------- state
VARIABLES
  pc,             \* position of main: the loop state, or how the run ended
  Predictor,      \* bool Predictor, set by hand in main
  val,            \* HMInputParam::Value of each element of InParams
  buffer,         \* char buffer[max_buffer]
  childEof,       \* the child has closed its output stream
  reads,          \* lines the child has delivered so far
  numRequests,    \* int numRequests
  request,        \* int request, the row loop counter
  InputParamsMap, \* map<int, HMInputParam *> of the current batch
  response,       \* string response of the current batch
  i,              \* int i, completed iterations
  fatalMsg,       \* what fatalError reported, "" until then
  delivered,      \* what each fgets of the current batch got from the child
  assignLog,      \* per evaluated row of the batch, its setVal calls in order
  evalLog,        \* per evaluator invocation of the batch, the values it saw
  written,        \* toChild: the last response flushed to the child
  nWrites,        \* number of fputs+fflush to the child so far
  nEvals,         \* number of calculateObjective invocations so far
  envHome,        \* getenv("HYPERMAPPER_HOME"): unset, empty or set
  envPath,        \* getenv("PYTHONPATH"): unset, empty or set
  paramTypes,     \* HMInputParam::Type of each element of InParams
  scenario,       \* the scenario file createjson wrote, << >> until then
  spawns,         \* optimizer children popen2 has forked
  fromChild,      \* hypermapper.from_child: none, open, invalid or closed
  toChild,        \* hypermapper.to_child: none, open, invalid or closed
  paretoRuns,     \* runs of compute_pareto.py through popen
  pending,        \* rest of a line of the child that fgets has left unread
  Obj             \* HMObjective Obj of the last evaluation, << >> until then

vars == <<pc, Predictor, val, buffer, childEof, reads, numRequests, request,
          InputParamsMap, response, i, fatalMsg, delivered, assignLog,
          evalLog, written, nWrites, nEvals, envHome, envPath, paramTypes,
          scenario, spawns, fromChild, toChild, paretoRuns, pending, Obj>>

setupVars == <<envHome, envPath, paramTypes, scenario, spawns>>
channelVars == <<fromChild, toChild, paretoRuns>>

LoopStates == {"AwaitingRequestHeader", "AwaitingParamHeader",
               "AwaitingCandidateRow", "Responding"}
\* the steps of main before the loop
StartupStates == {"CheckingEnvironment", "BuildingScenario", "Launching"}
\* Done: left the loop by break; Closed: both descriptors closed;
\* Finished: main returned 0; Fatal: fatalError called exit(EXIT_FAILURE);
\* Aborted: an exception of stoi left main, std::terminate aborted the run;
\* Crashed: stdio was used on a stream that fdopen could not open
EndStates == {"Done", "Closed", "Finished", "Fatal", "Aborted", "Crashed"}

MsgUnknownParameter == "Unknown parameter received!"
MsgEnvironment == "Environment variables are not set!"
MsgParamType == "Only Ordinal and Categorical handled!"

EnvValues == {"unset", "empty", "set"}
\* enum ParamType
ParamTypes == {"Real", "Integer", "Ordinal", "Categorical"}

\* the start of main but for the environment and the parameter kinds
StartOfMain ==
  /\ pc = "CheckingEnvironment"
  /\ scenario = << >>
  /\ spawns = 0
  /\ fromChild = "none"
  /\ toChild = "none"
  /\ paretoRuns = 0
  /\ pending = << >>
  /\ Obj = << >>
  /\ Predictor \in BOOLEAN
  /\ buffer = UninitBuffer
  /\ childEof = FALSE
  /\ reads = 0
  /\ numRequests = 0
  /\ request = 0
  /\ InputParamsMap = << >>
  /\ response = << >>
  /\ i = 0
  /\ fatalMsg = ""
  /\ delivered = << >>
  /\ assignLog = << >>
  /\ evalLog = << >>
  /\ written = << >>
  /\ nWrites = 0
  /\ nEvals = 0

\* a run with both variables set and the parameters of collectInputParams
Init ==
  /\ StartOfMain
  /\ envHome = "set"
  /\ envPath = "set"
  /\ paramTypes = [p \in 1..numParams |-> "Integer"]
  /\ val \in [1..numParams -> UninitVals]

\* a run under any environment and any kinds of parameters
InitAnySetup ==
  /\ StartOfMain
  /\ envHome \in EnvValues
  /\ envPath \in EnvValues
  /\ paramTypes \in [1..numParams -> ParamTypes]
  /\ val \in [1..numParams -> UninitVals]

\* ---------------------------------------------------------- lines 198-202
\* if (!getenv("HYPERMAPPER_HOME") || !getenv("PYTHONPATH")) fatalError(..)
EnvMissing(home, path) == home = "unset" \/ path = "unset"

CheckEnvironment ==
  /\ pc = "CheckingEnvironment"
  /\ IF EnvMissing(envHome, envPath)
     THEN pc' = "Fatal" /\ fatalMsg' = MsgEnvironment
     ELSE pc' = "BuildingScenario" /\ UNCHANGED fatalMsg
  /\ UNCHANGED <<Predictor, val, buffer, childEof, reads, numRequests,
                 request, InputParamsMap, response, i, delivered, assignLog,
                 evalLog, written, nWrites, nEvals, setupVars, channelVars,
                 pending, Obj>>

\* ------------------------------------------------- lines 75-149, 236-239
\* getTypeAsString
getTypeAsString(t) ==
  CASE t = "Real" -> "real"
    [] t = "Integer" -> "integer"
    [] t = "Ordinal" -> "ordinal"
    [] t = "Categorical" -> "categorical"

\* the switch of lines 123-132: Ordinal, Categorical and Integer get their
\* values, any other kind runs into fatalError
TypeHandled(t) == t \in {"Ordinal", "Categorical", "Integer"}

\* HMScenario["input_parameters"][InParam->getKey()] = HMParam, for the
\* parameters in order; an object has one member per key
InputParametersOf(types) ==
  [k \in {InParams[p] : p \in 1..Len(InParams)} |->
     LET p == CHOOSE q \in 1..Len(InParams) :
                InParams[q] = k /\ \A m \in (q + 1)..Len(InParams) : InParams[m] # k
     IN  [parameter_type |-> getTypeAsString(types[p]),
          values |-> <<RangeLo, RangeHi>>]]

createjson(predictor, types) ==
  IF \E p \in 1..Len(InParams) : ~TypeHandled(types[p])
  THEN [fatal |-> TRUE, file |-> << >>]
  ELSE [fatal |-> FALSE,
        file |-> <<[optimization_objectives |-> Objectives,
                    feasible_output |-> predictor,
                    input_parameters |-> InputParametersOf(types)]>>]

BuildScenario ==
  /\ pc = "BuildingScenario"
  /\ LET j == createjson(Predictor, paramTypes)
     IN  IF j.fatal
         THEN pc' = "Fatal" /\ fatalMsg' = MsgParamType /\ UNCHANGED scenario
         ELSE pc' = "Launching" /\ scenario' = j.file /\ UNCHANGED fatalMsg
  /\ UNCHANGED <<Predictor, val, buffer, childEof, reads, numRequests,
                 request, InputParamsMap, response, i, delivered, assignLog,
                 evalLog, written, nWrites, nEvals, envHome, envPath,
                 paramTypes, spawns, channelVars, pending, Obj>>

\* ------------------------------------------------- lines 29-59, 242-252
\* popen2(cmd.c_str(), &hypermapper), its result never looked at: when
\* pipe or fork fails the descriptors of hypermapper stay uninitialised,
\* and main goes on to fdopen them and into the loop
Launch ==
  /\ pc = "Launching"
  /\ \/ /\ spawns' = spawns + 1
        /\ fromChild' = "open"
        /\ toChild' = "open"
     \/ /\ spawns' = spawns
        /\ fromChild' = "invalid"
        /\ toChild' = "invalid"
  /\ pc' = "AwaitingRequestHeader"
  /\ UNCHANGED <<Predictor, val, buffer, childEof, reads, numRequests,
                 request, InputParamsMap, response, i, fatalMsg, delivered,
                 assignLog, evalLog, written, nWrites, nEvals, envHome,
                 envPath, paramTypes, scenario, paretoRuns, pending, Obj>>

\* fgets or fputs on a stream that was never opened
Crash ==
  /\ pc \in LoopStates
  /\ fromChild = "invalid"
  /\ pc' = "Crashed"
  /\ UNCHANGED <<Predictor, val, buffer, childEof, reads, numRequests,
                 request, InputParamsMap, response, i, fatalMsg, delivered,
                 assignLog, evalLog, written, nWrites, nEvals, setupVars,
                 channelVars, pending, Obj>>

\* ----------------------------------------------------------------- fgets
\* fgets(buffer, max_buffer, instream), its result never looked at: a line
\* replaces the buffer; at end of stream the buffer keeps what it held
StaleBuffers == IF buffer = UninitBuffer THEN GarbageBuffers ELSE {buffer}

\* at most max_buffer - 1 characters of a line are stored by one call
ChunkLen(l) == Min(Len(l), max_buffer - 1)
Chunk(l) == SubSeq(l, 1, ChunkLen(l))
Rest(l) == SubSeq(l, ChunkLen(l) + 1, Len(l))

\* a descriptor that is not the child's gives no line of the child
FgetsOutcomes ==
  IF pending # << >>
  THEN {[buf |-> Chunk(pending), got |-> Chunk(pending), eof |-> childEof,
         rest |-> Rest(pending)]}
  ELSE
  {[buf |-> b, got |-> EndOfStream, eof |-> TRUE, rest |-> << >>] :
     b \in StaleBuffers}
  \cup
  (IF childEof \/ reads >= MaxReads \/ fromChild # "open" THEN {}
   ELSE {[buf |-> Chunk(l), got |-> Chunk(l), eof |-> FALSE, rest |-> Rest(l)] :
           l \in ChildLines}
        \cup {[buf |-> l, got |-> l, eof |-> TRUE, rest |-> << >>] :
                l \in PartialLines})

Fgets(r) ==
  /\ buffer' = r.buf
  /\ childEof' = r.eof
  /\ pending' = r.rest
  /\ reads' = IF r.got = EndOfStream \/ pending # << >> THEN reads
              ELSE reads + 1

\* ------------------------------------------- lines 261-271: request header
\* the comparison as it would be had the newline fgets keeps been forgotten
IsSentinelNoNewline(bufferStr) ==
  bufferStr = SubSeq(SentinelLine, 1, Len(SentinelLine) - 1)

\* bufferStr.compare("End of HyperMapper\n") == 0
IsSentinel(bufferStr) == bufferStr = SentinelLine

\* bufferStr.substr(bufferStr.find(' ') + 1)
NumReqStr(bufferStr) ==
  substr(bufferStr, SizeAdd(find_first_of(bufferStr, {" "}, 0), 1), npos)

ReadRequestHeader ==
  /\ pc = "AwaitingRequestHeader"
  /\ \E r \in FgetsOutcomes :
       /\ Fgets(r)
       /\ delivered' = <<r.got>>
       /\ assignLog' = << >>
       /\ evalLog' = << >>
       /\ IF IsSentinel(r.buf)
          THEN /\ pc' = "Done"
               /\ UNCHANGED numRequests
          ELSE IF StoiThrows(NumReqStr(r.buf))
          THEN /\ pc' = "Aborted"
               /\ UNCHANGED numRequests
          ELSE /\ pc' = "AwaitingParamHeader"
               /\ numRequests' = stoi(NumReqStr(r.buf))
  /\ UNCHANGED <<Predictor, val, request, InputParamsMap, response, i,
                 fatalMsg, written, nWrites, nEvals, setupVars, channelVars,
                 Obj>>

\* -------------------------------------------------- line 300: the row loop
\* the loop condition as it would be with an off-by-one
MoreRowsOffByOne(req, n) == req <= n

\* for (int request = 0; request < numRequests; request++)
MoreRows(req, n) == req < n

\* ------------------------------------------ lines 273-298: parameter header
\* the mapping as it would be were columns taken in declaration order
MapEntryDeclarationOrder(param, paramIt) == param + 1

\* InputParamsMap[param] = *paramIt
MapEntry(param, paramIt) == paramIt

RECURSIVE HeaderLoop(_, _, _, _, _)
\* for (int param = 0; param < numParams; param++) of lines 280-293
HeaderLoop(bufferStr, param, pos, map, resp) ==
  IF param >= numParams
  THEN [fatal |-> FALSE, map |-> map, response |-> resp]
  ELSE LET found == find_first_of(bufferStr, {",", "\n"}, pos)
           ParamStr == substr(bufferStr, pos, SizeSub(found, pos))
           paramIt == findHMParamByKey(ParamStr)
       IN  IF paramIt # InParamsEnd
           THEN HeaderLoop(bufferStr, param + 1, SizeAdd(found, 1),
                           Append(map, MapEntry(param, paramIt)),
                           resp \o ParamStr \o <<",">>)
           ELSE [fatal |-> TRUE, map |-> map, response |-> resp]

RECURSIVE ObjectiveNames(_)
\* for (auto objString : Objectives) response += objString + ","
ObjectiveNames(k) ==
  IF k > Len(Objectives) THEN << >>
  ELSE Objectives[k] \o <<",">> \o ObjectiveNames(k + 1)

ValidToken == <<"V", "a", "l", "i", "d">>

\* lines 294-298
ResponseHeaderTail(predictor) ==
  ObjectiveNames(1) \o (IF predictor THEN ValidToken ELSE << >>) \o <<"\n">>

ReadParamHeader ==
  /\ pc = "AwaitingParamHeader"
  /\ \E r \in FgetsOutcomes :
       /\ Fgets(r)
       /\ delivered' = Append(delivered, r.got)
       /\ LET h == HeaderLoop(r.buf, 0, 0, << >>, << >>)
          IN  IF h.fatal
              THEN /\ pc' = "Fatal"
                   /\ fatalMsg' = MsgUnknownParameter
                   /\ UNCHANGED <<InputParamsMap, response, request>>
              ELSE /\ InputParamsMap' = h.map
                   /\ response' = h.response \o ResponseHeaderTail(Predictor)
                   /\ request' = 0
                   /\ pc' = IF MoreRows(0, numRequests)
                            THEN "AwaitingCandidateRow"
                            ELSE "Responding"
                   /\ UNCHANGED fatalMsg
  /\ UNCHANGED <<Predictor, val, numRequests, i, assignLog, evalLog, written,
                 nWrites, nEvals, setupVars, channelVars, Obj>>

\* --------------------------------------------- lines 300-321: candidate row
RECURSIVE RowLoop(_, _, _, _, _, _, _)
\* for (int param = 0; param < numParams; param++) of lines 306-313
RowLoop(bufferStr, param, pos, map, vals, resp, log) ==
  IF param >= numParams
  THEN [thrown |-> FALSE, val |-> vals, response |-> resp, log |-> log]
  ELSE LET found == find_first_of(bufferStr, {",", "\n"}, pos)
           ParamValStr == substr(bufferStr, pos, SizeSub(found, pos))
       IN  IF StoiThrows(ParamValStr)
           THEN [thrown |-> TRUE, val |-> vals, response |-> resp, log |-> log]
           ELSE RowLoop(bufferStr, param + 1, SizeAdd(found, 1), map,
                        setVal(vals, map[param + 1], stoi(ParamValStr)),
                        resp \o ParamValStr \o <<",">>,
                        Append(log, <<map[param + 1], stoi(ParamValStr)>>))

\* lines 315-320
ObjectiveText(o) ==
  to_string(o.f1_value) \o <<",">> \o to_string(o.f2_value) \o <<",">>
  \o BoolToString(o.valid) \o <<"\n">>

ReadCandidateRow ==
  /\ pc = "AwaitingCandidateRow"
  /\ \E r \in FgetsOutcomes :
       /\ Fgets(r)
       /\ delivered' = Append(delivered, r.got)
       /\ LET w == RowLoop(r.buf, 0, 0, InputParamsMap, val, response, << >>)
          IN  /\ val' = w.val
              /\ IF w.thrown
                 THEN /\ pc' = "Aborted"
                      /\ UNCHANGED <<response, request, assignLog, evalLog,
                                     nEvals, Obj>>
                 ELSE /\ Obj' = <<calculateObjective(w.val)>>
                      /\ response' = w.response \o ObjectiveText(Obj'[1])
                      /\ assignLog' = Append(assignLog, w.log)
                      /\ evalLog' = Append(evalLog, w.val)
                      /\ nEvals' = nEvals + 1
                      /\ request' = request + 1
                      /\ pc' = IF MoreRows(request + 1, numRequests)
                               THEN "AwaitingCandidateRow" ELSE "Responding"
  /\ UNCHANGED <<Predictor, numRequests, InputParamsMap, i, fatalMsg, written,
                 nWrites, setupVars, channelVars>>

\* ---------------------------------------------------------- lines 322-325
\* fputs(response.c_str(), outstream); fflush(outstream); i++
Respond ==
  /\ pc = "Responding"
  /\ toChild = "open"
  /\ written' = response
  /\ nWrites' = nWrites + 1
  /\ i' = i + 1
  /\ pc' = "AwaitingRequestHeader"
  /\ UNCHANGED <<Predictor, val, buffer, childEof, reads, numRequests,
                 request, InputParamsMap, response, fatalMsg, delivered,
                 assignLog, evalLog, nEvals, setupVars, channelVars, pending,
                 Obj>>

\* ---------------------------------------------------------- lines 328-329
\* the descriptors as they would be left were the closing forgotten
ClosedDescriptorLeftOpen(d) == d

\* close(hypermapper.from_child); close(hypermapper.to_child)
ClosedDescriptor(d) == "closed"

CloseChannel ==
  /\ pc = "Done"
  /\ fromChild' = ClosedDescriptor(fromChild)
  /\ toChild' = ClosedDescriptor(toChild)
  /\ pc' = "Closed"
  /\ UNCHANGED <<Predictor, val, buffer, childEof, reads, numRequests,
                 request, InputParamsMap, response, i, fatalMsg, delivered,
                 assignLog, evalLog, written, nWrites, nEvals, setupVars,
                 paretoRuns, pending, Obj>>

\* ---------------------------------------------------------- lines 331-342
\* popen of compute_pareto.py, its output printed, return 0
Finish ==
  /\ pc = "Closed"
  /\ paretoRuns' = paretoRuns + 1
  /\ pc' = "Finished"
  /\ UNCHANGED <<Predictor, val, buffer, childEof, reads, numRequests,
                 request, InputParamsMap, response, i, fatalMsg, delivered,
                 assignLog, evalLog, written, nWrites, nEvals, setupVars,
                 fromChild, toChild, pending, Obj>>

\* ---------------------------------------------------------- lines 152-165
\* calculateObjective on its own, at any point of the parameters' range
InitEvaluator ==
  /\ StartOfMain
  /\ envHome = "set"
  /\ envPath = "set"
  /\ paramTypes = [p \in 1..numParams |-> "Integer"]
  /\ val \in [1..numParams -> RangeLo..RangeHi]

\* Obj = calculateObjective(InParams), once
Evaluate ==
  /\ pc = "CheckingEnvironment"
  /\ Obj = << >>
  /\ Obj' = <<calculateObjective(val)>>
  /\ evalLog' = Append(evalLog, val)
  /\ nEvals' = nEvals + 1
  /\ UNCHANGED <<pc, Predictor, val, buffer, childEof, reads, numRequests,
                 request, InputParamsMap, response, i, fatalMsg, delivered,
                 assignLog, written, nWrites, setupVars, channelVars,
                 pending>>

SpecEvaluator == InitEvaluator /\ [][Evaluate]_vars

\* lines 198-252 alone, under any environment and any kinds of parameters
NextSetup == CheckEnvironment \/ BuildScenario \/ Launch

SpecSetup == InitAnySetup /\ [][NextSetup]_vars

Next ==
  \/ CheckEnvironment
  \/ BuildScenario
  \/ Launch
  \/ Crash
  \/ CloseChannel
  \/ ReadRequestHeader
  \/ ReadParamHeader
  \/ ReadCandidateRow
  \/ Respond
  \/ Finish

Spec == Init /\ [][Next]_vars

\* main has returned or the process has exited
Terminated == pc \in {"Finished", "Fatal", "Aborted", "Crashed"}

\* main moves on: every step of Next changes the position or the row
\* counter, and one is possible whenever main has not terminated
Proceed ==
  /\ ~Terminated
  /\ pc' \in StartupStates \cup LoopStates \cup EndStates
  /\ request' \in 0..(MaxReads + 1)
  /\ (pc' # pc \/ request' # request)

\* the process is scheduled until it terminates: a run makes progress while
\* the child delivers and ends when it is through
FairSpec == Spec /\ WF_<<pc, request>>(Proceed)

TypeOK ==
  /\ pc \in StartupStates \cup LoopStates \cup EndStates
  /\ Predictor \in BOOLEAN
  /\ reads \in 0..MaxReads
  /\ nWrites = i


\* ===================================================================
\* The line protocol as the specification words it, written without the
\* program's parsing code, to state the properties against
\* ===================================================================
IsFullLine(l) == l # EndOfStream /\ Len(l) > 0 /\ l[Len(l)] = "\n"
WasRead(l) == l # EndOfStream

StripNewline(l) ==
  IF Len(l) > 0 /\ l[Len(l)] = "\n" THEN SubSeq(l, 1, Len(l) - 1) ELSE l

RECURSIVE SplitAt(_, _)
\* the pieces of s between occurrences of sep
SplitAt(s, sep) ==
  IF \E k \in 1..Len(s) : s[k] = sep
  THEN LET k == CHOOSE n \in 1..Len(s) :
                  s[n] = sep /\ \A m \in 1..(n - 1) : s[m] # sep
       IN  <<SubSeq(s, 1, k - 1)>> \o SplitAt(SubSeq(s, k + 1, Len(s)), sep)
  ELSE <<s>>

\* the comma-separated tokens of a line received from the child
Tokens(l) == SplitAt(StripNewline(l), ",")

\* the fields of a line sent to the child: each is comma-terminated, the
\* last one may stand unterminated before the newline
Fields(l) ==
  LET t == SplitAt(StripNewline(l), ",")
  IN  IF t[Len(t)] = << >> THEN SubSeq(t, 1, Len(t) - 1) ELSE t

\* the newline-terminated lines of a text sent to the child
TextLines(text) ==
  LET t == SplitAt(text, "\n") IN SubSeq(t, 1, Len(t) - 1)
EndsWithNewline(text) == Len(text) > 0 /\ text[Len(text)] = "\n"

IsDigits(t) == Len(t) > 0 /\ \A k \in 1..Len(t) : t[k] \in DigitChars
IsIntegerText(t) ==
  \/ IsDigits(t)
  \/ Len(t) > 1 /\ t[1] = "-" /\ IsDigits(SubSeq(t, 2, Len(t)))

RECURSIVE NatOf(_)
NatOf(t) ==
  IF Len(t) = 0 THEN 0
  ELSE 10 * NatOf(SubSeq(t, 1, Len(t) - 1)) + DigitVal[t[Len(t)]]

\* the integer an integer text denotes
IntOf(t) == IF t[1] = "-" THEN 0 - NatOf(SubSeq(t, 2, Len(t))) ELSE NatOf(t)

\* the decimal numeral t denotes the integer n
Denotes(t, n) ==
  LET parts == SplitAt(t, ".")
  IN  /\ Len(parts) \in {1, 2}
      /\ IsIntegerText(parts[1])
      /\ IntOf(parts[1]) = n
      /\ Len(parts) = 2 =>
           /\ IsDigits(parts[2])
           /\ \A k \in 1..Len(parts[2]) : parts[2][k] = "0"

IsWord(t) == Len(t) > 0 /\ \A k \in 1..Len(t) : t[k] \notin {" ", ",", "\n"}

\* <word><space><integer N>
WellFormedRequest(l) ==
  /\ IsFullLine(l)
  /\ LET p == SplitAt(StripNewline(l), " ")
     IN  Len(p) = 2 /\ IsWord(p[1]) /\ IsIntegerText(p[2])
Declared(l) == IntOf(SplitAt(StripNewline(l), " ")[2])

IsKey(t) == \E p \in 1..Len(InParams) : InParams[p] = t
ParamOf(t) == CHOOSE p \in 1..Len(InParams) : InParams[p] = t

\* every configured parameter named exactly once
WellFormedHeader(l) ==
  /\ IsFullLine(l)
  /\ Len(Tokens(l)) = numParams
  /\ \A p \in 1..numParams :
       Cardinality({k \in 1..numParams : Tokens(l)[k] = InParams[p]}) = 1

WellFormedRow(l) ==
  /\ IsFullLine(l)
  /\ Len(Tokens(l)) = numParams
  /\ \A k \in 1..numParams : IsIntegerText(Tokens(l)[k])

\* the lines of the current batch by position
RequestLine == delivered[1]
HeaderLine == delivered[2]
RowLine(j) == delivered[2 + j]
RowsDelivered == IF Len(delivered) > 2 THEN Len(delivered) - 2 ELSE 0

\* ------------------------------------------------------------------- C1
\* C1: when the line read in the request-header position is the sentinel
\* "End of HyperMapper" the loop moves to Done, and from Done on there is
\* no further evaluator invocation and nothing is written to the child.
C1_SentinelEndsLoop ==
  [][ /\ (pc = "AwaitingRequestHeader" /\ pc' # "Crashed"
            /\ delivered'[1] = SentinelLine)
         => (pc' = "Done" /\ nEvals' = nEvals /\ nWrites' = nWrites)
      /\ (pc \in {"Done", "Closed", "Finished"})
         => /\ pc' \in {"Done", "Closed", "Finished"}
            /\ nEvals' = nEvals
            /\ nWrites' = nWrites
            /\ written' = written ]_vars

\* the sentinel as the very first line: Done with no batch, no evaluation
C1_Witness ==
  /\ pc = "Done"
  /\ delivered = <<SentinelLine>>
  /\ i = 0
  /\ nEvals = 0
  /\ nWrites = 0

\* ------------------------------------------------------------------- C2
\* C2: for a batch whose request header declares N rows and whose parameter
\* header and rows are well formed, the evaluator is invoked exactly N
\* times, once per row in row order, each time seeing that row's values.
C2_OneEvaluationPerRow ==
  ( /\ pc = "Responding"
    /\ Len(delivered) >= 2
    /\ WellFormedRequest(RequestLine)
    /\ WellFormedHeader(HeaderLine)
    /\ \A j \in 1..RowsDelivered : WellFormedRow(RowLine(j)) )
  => /\ RowsDelivered = Declared(RequestLine)
     /\ Len(evalLog) = Declared(RequestLine)
     /\ \A j \in 1..Len(evalLog) : \A k \in 1..numParams :
          evalLog[j][ParamOf(Tokens(HeaderLine)[k])]
            = IntOf(Tokens(RowLine(j))[k])

\* "Request 2", "x0,x1", "1,2", "-3,4": evaluated at (1,2), then at (-3,4)
C2_Witness ==
  /\ pc = "Responding"
  /\ delivered = <<Request2, HeaderX0X1, Row12, RowM34>>
  /\ evalLog = << <<1, 2>>, <<0 - 3, 4>> >>

\* ------------------------------------------------------------------- C3
\* C3: in every batch the value token at position k of a candidate row is
\* assigned to the parameter whose key stands at position k of that batch's
\* own parameter header, and the evaluator reads each parameter by identity.
C3_AssignedByHeaderPosition ==
  (Len(delivered) >= 2 /\ IsFullLine(HeaderLine)) =>
    \A j \in 1..Len(assignLog) :
      WasRead(RowLine(j)) =>
        /\ Len(assignLog[j]) = numParams
        /\ \A k \in 1..numParams :
             /\ IsKey(Tokens(HeaderLine)[k])
             /\ assignLog[j][k][1] = ParamOf(Tokens(HeaderLine)[k])
             /\ IsIntegerText(Tokens(RowLine(j))[k])
                  => assignLog[j][k][2] = IntOf(Tokens(RowLine(j))[k])
        /\ WellFormedHeader(HeaderLine) =>
             \A k \in 1..numParams :
               evalLog[j][ParamOf(Tokens(HeaderLine)[k])] = assignLog[j][k][2]

\* a batch under header "x1,x0" after a batch answered under "x0,x1":
\* token 0 went to x1 and token 1 to x0
C3_Witness ==
  /\ i = 1
  /\ SubSeq(written, 1, 6) = SubSeq(HeaderX0X1, 1, 5) \o <<",">>
  /\ Len(delivered) = 3
  /\ HeaderLine = HeaderX1X0
  /\ RowLine(1) = Row12
  /\ assignLog = << << <<2, 1>>, <<1, 2>> >> >>
  /\ evalLog = << <<2, 1>> >>


\* how a run ends other than by the sentinel
FailedStates == {"Fatal", "Aborted"}

\* the step is an fgets of the loop
ReadStep ==
  \/ pc = "AwaitingRequestHeader" /\ pc' \notin {pc, "Crashed"}
  \/ /\ pc \in {"AwaitingParamHeader", "AwaitingCandidateRow"}
     /\ Len(delivered') > Len(delivered)

\* up to the current point of the batch the child has sent what the
\* protocol asks for, a read that met end of stream aside
HeaderSentWellFormed == Len(delivered) >= 1 /\ WellFormedRequest(RequestLine)
BatchSentWellFormed ==
  /\ Len(delivered) >= 1 => (WellFormedRequest(RequestLine) \/ ~WasRead(RequestLine))
  /\ Len(delivered) >= 2 => (WellFormedHeader(HeaderLine) \/ ~WasRead(HeaderLine))
  /\ \A j \in 1..RowsDelivered : (WellFormedRow(RowLine(j)) \/ ~WasRead(RowLine(j)))

\* rows the request header of the batch asked for
RowsAsked == IF numRequests > 0 THEN numRequests ELSE 0

\* ------------------------------------------------------------------- C4
\* C4: for every batch of N rows there is exactly one write-and-flush; it
\* happens only after the request header, the parameter header and all N
\* rows of the batch have been read; it is one header line and N
\* newline-terminated body lines, body line j answering row j of this
\* batch; and the next request header is read only after that flush.
C4_OneFlushPerBatch ==
  /\ nWrites = i
  /\ (pc = "AwaitingRequestHeader" /\ i > 0 /\ BatchSentWellFormed) =>
       /\ written = response
       /\ Len(delivered) = 2 + RowsAsked
       /\ \A k \in 1..Len(delivered) : WasRead(delivered[k])
       /\ EndsWithNewline(written)
       /\ Len(TextLines(written)) = RowsAsked + 1
       /\ \A j \in 1..RowsAsked : \A k \in 1..numParams :
            Fields(TextLines(written)[j + 1])[k] = Tokens(RowLine(j))[k]

\* ------------------------------------------------------------------- C5
\* C5: each response body line starts with the numeric tokens of the
\* corresponding request row, verbatim and in order, before any objective
\* value, and the number the evaluator used for a parameter is the number
\* the echoed token denotes.
C5_EchoVerbatim ==
  \A j \in 1..Len(evalLog) :
    ( /\ HeaderSentWellFormed
      /\ WellFormedHeader(HeaderLine)
      /\ IsFullLine(RowLine(j)) ) =>
      LET body == Fields(TextLines(response)[j + 1])
          toks == Tokens(RowLine(j))
      IN  /\ Len(body) >= Len(toks)
          /\ \A k \in 1..Len(toks) : body[k] = toks[k]
          /\ \A k \in 1..numParams :
               Denotes(body[k], evalLog[j][ParamOf(Tokens(HeaderLine)[k])])

\* ------------------------------------------------------------------- C6
\* C6: the response header ends with the token Valid iff the feasibility
\* predictor is enabled, every body line ends with the feasibility flag
\* (1 or 0) iff it is enabled, and so header and body lines have the same
\* number of fields under both settings.
HasFlag(f) ==
  /\ Len(f) = numParams + Len(Objectives) + 1
  /\ f[Len(f)] \in {<<"0">>, <<"1">>}

C6_ValidColumnIffPredictor ==
  (pc = "Responding" /\ BatchSentWellFormed) =>
    LET lines == TextLines(response)
        hdr == Fields(lines[1])
    IN  /\ (hdr[Len(hdr)] = ValidToken) <=> Predictor
        /\ \A j \in 2..Len(lines) :
             /\ HasFlag(Fields(lines[j])) <=> Predictor
             /\ Len(Fields(lines[j])) = Len(hdr)

\* ------------------------------------------------------------------- C7
\* C7: a parameter header naming a key absent from the Parameter Model
\* ends the run with a reported fatal error, with no evaluator invocation
\* for that batch, no candidate row of it read, no response written for it.
NamesUnknownKey(l) ==
  \E k \in 1..Len(Tokens(l)) : ~IsKey(Tokens(l)[k])

C7_UnknownKeyIsFatal ==
  ( /\ HeaderSentWellFormed
    /\ Len(delivered) >= 2
    /\ IsFullLine(HeaderLine)
    /\ NamesUnknownKey(HeaderLine) )
  => /\ pc = "Fatal"
     /\ fatalMsg # ""
     /\ Len(delivered) = 2
     /\ evalLog = << >>

\* ------------------------------------------------------------------- C8
\* C8: a request-header line that is neither the sentinel nor of the form
\* <word><space><integer N> ends the run: no parameter header is read, the
\* evaluator is not invoked, no response is written.
C8_MalformedRequestIsFatal ==
  ( /\ Len(delivered) >= 1
    /\ IsFullLine(RequestLine)
    /\ RequestLine # SentinelLine
    /\ ~WellFormedRequest(RequestLine) )
  => /\ pc \in FailedStates
     /\ Len(delivered) = 1
     /\ evalLog = << >>

\* ------------------------------------------------------------------- C9
\* C9: when a read of the loop (request header, parameter header or row)
\* meets the end of the child's output, the session is ended: from then on
\* the evaluator is invoked zero more times, no response is written, and
\* no line read before is processed again.
EndOfStreamMet == \E k \in 1..Len(delivered) : delivered[k] = EndOfStream

C9_EndOfStreamIsFatal ==
  [][ BatchSentWellFormed =>
        /\ (ReadStep /\ delivered'[Len(delivered')] = EndOfStream)
             => /\ nEvals' = nEvals
                /\ buffer # UninitBuffer => pc' \in FailedStates
        /\ EndOfStreamMet => (nEvals' = nEvals /\ nWrites' = nWrites) ]_vars

\* ------------------------------------------------------------------ C10
\* C10: a parameter header or candidate row whose number of comma-separated
\* tokens differs from the number of configured parameters ends the run
\* without an evaluator invocation for that line and without a response
\* for that batch.
WrongCount(l) == IsFullLine(l) /\ Len(Tokens(l)) # numParams

C10_FieldCountMismatchIsFatal ==
  /\ (HeaderSentWellFormed /\ Len(delivered) >= 2 /\ WrongCount(HeaderLine))
       => (pc \in FailedStates /\ Len(delivered) = 2 /\ evalLog = << >>)
  /\ \A j \in 1..RowsDelivered :
       (HeaderSentWellFormed /\ WellFormedHeader(HeaderLine) /\ WrongCount(RowLine(j)))
         => (pc \in FailedStates /\ j = RowsDelivered /\ Len(evalLog) < j)


\* ------------------------------------------------------------------ C11
\* C11: a candidate-row token that is not a well-formed integer (empty,
\* non-numeric, or digits followed by other characters such as "3abc" or
\* "1.5") ends the run: the evaluator is not invoked for that row and no
\* response containing that row is written.
HasMalformedToken(l) ==
  /\ IsFullLine(l)
  /\ Len(Tokens(l)) = numParams
  /\ \E k \in 1..numParams : ~IsIntegerText(Tokens(l)[k])

C11_MalformedTokenIsFatal ==
  \A j \in 1..RowsDelivered :
    ( /\ HeaderSentWellFormed
      /\ WellFormedHeader(HeaderLine)
      /\ HasMalformedToken(RowLine(j)) )
    => (pc \in FailedStates /\ j = RowsDelivered /\ Len(evalLog) < j)

\* ------------------------------------------------------------------ C16
\* C16: at every evaluator invocation every configured parameter has been
\* assigned from the candidate row being evaluated, for every parameter
\* header the loop accepts (a header repeating one key included): none
\* keeps a value of an earlier row or batch or is left unassigned.
AssignedInRow(j, p) ==
  \E k \in 1..Len(assignLog[j]) : assignLog[j][k][1] = p

C16_EveryParameterAssigned ==
  \A j \in 1..Len(evalLog) :
    ( /\ HeaderSentWellFormed
      /\ IsFullLine(HeaderLine)
      /\ WellFormedRow(RowLine(j)) )
    => \A p \in 1..numParams : AssignedInRow(j, p)

\* ------------------------------------------------------------------ C15
\* the evaluator has run on the point x1 = 2, x2 = 1
EvaluatedAtReferencePoint ==
  /\ Obj # << >>
  /\ evalLog # << >>
  /\ evalLog[Len(evalLog)][1] = 2
  /\ evalLog[Len(evalLog)][2] = 1

\* C15: the reference evaluator at x1 = 2, x2 = 1 yields f1 = 2, f2 = 18
\* and feasible = true.
C15_ReferencePointFeasible ==
  EvaluatedAtReferencePoint
    => (Obj[1].f1_value = 2 /\ Obj[1].f2_value = 18 /\ Obj[1].valid = TRUE)

\* C15, amended: the reference evaluator at x1 = 2, x2 = 1 yields f1 = 2,
\* f2 = 18 and feasible = false, since x1 - 3*x2 + 10 = 9 is above 0.
C15_ReferencePointValues ==
  EvaluatedAtReferencePoint
    => (Obj[1].f1_value = 2 /\ Obj[1].f2_value = 18 /\ Obj[1].valid = FALSE)

C15_Witness ==
  /\ EvaluatedAtReferencePoint
  /\ nEvals = 1
  /\ val[1] = 2
  /\ val[2] = 1

\* ------------------------------------------------------------------ C12
\* the optimizer runs, and every line of the current batch read so far is
\* the one the protocol asks for at its position
ChildConforms ==
  /\ fromChild # "invalid"
  /\ Len(delivered) >= 1 =>
       (RequestLine = SentinelLine \/ WellFormedRequest(RequestLine))
  /\ Len(delivered) >= 2 => WellFormedHeader(HeaderLine)
  /\ \A j \in 1..RowsDelivered : WellFormedRow(RowLine(j))

SpawnFailed == scenario # << >> /\ pc # "Launching" /\ spawns = 0

\* C13: when spawning the optimizer fails the program ends fatally without
\* entering the loop: no read from the channel, no write to it, no
\* evaluator invocation, and no ending other than the fatal one.
C13_SpawnFailureIsFatal ==
  SpawnFailed =>
    /\ delivered = << >>
    /\ nWrites = 0
    /\ nEvals = 0
    /\ pc \in EndStates => pc = "Fatal"

\* ------------------------------------------------------------------ C14
EnvUnsetOrEmpty ==
  envHome \in {"unset", "empty"} \/ envPath \in {"unset", "empty"}

\* C14: with HYPERMAPPER_HOME or PYTHONPATH unset or empty the program ends
\* with the fatal startup error before the scenario file is written and
\* before the optimizer is launched.
C14_EnvironmentRequired ==
  EnvUnsetOrEmpty =>
    /\ pc \in {"CheckingEnvironment", "Fatal"}
    /\ pc = "Fatal" => fatalMsg = MsgEnvironment
    /\ scenario = << >>
    /\ spawns = 0

\* ------------------------------------------------------------------ C17
\* createjson has been called
ScenarioBuilt ==
  /\ envHome = "set"
  /\ envPath = "set"
  /\ pc \notin {"CheckingEnvironment", "BuildingScenario"}

\* the objective names of a response header, Valid aside
HeaderObjectives(tail) ==
  LET f == Fields(StripNewline(tail))
  IN  IF Len(f) > 0 /\ f[Len(f)] = ValidToken THEN SubSeq(f, 1, Len(f) - 1)
      ELSE f

\* C17: building the scenario writes, for every parameter and every kind of
\* parameter, one input_parameters entry with its type and domain, and
\* lists the objective names, in order, that the loop emits in each
\* response header and answers with one value each per body line.
C17_ScenarioListsParameters ==
  ScenarioBuilt =>
    /\ scenario # << >>
    /\ \A p \in 1..Len(InParams) :
         /\ InParams[p] \in DOMAIN scenario[1].input_parameters
         /\ scenario[1].input_parameters[InParams[p]].parameter_type
              = getTypeAsString(paramTypes[p])
         /\ scenario[1].input_parameters[InParams[p]].values
              = <<RangeLo, RangeHi>>
    /\ scenario[1].optimization_objectives
         = HeaderObjectives(ResponseHeaderTail(Predictor))
    /\ Len(Fields(StripNewline(ObjectiveText(calculateObjective(val)))))
         = Len(scenario[1].optimization_objectives) + 1

\* ------------------------------------------------------------------ C18
\* C18: every line of the child is delivered whole by one read whatever its
\* length: no read delivers the rest of a line that an earlier read began,
\* so no line is consumed as two protocol lines.
C18_LinesNeverSplit ==
  [][ ReadStep => pending = << >> ]_vars

====
